---- MODULE Spec2Model ----
(***************************************************************************)
(* Model of the kernel-path server extension                               *)
(* (jupyterlab_launcher_navigate_to_kernel_extension/handlers.py).         *)
(*                                                                         *)
(* A path string is represented by its split on "/": the string s is the   *)
(* sequence s.split("/"), so "/opt/conda" is <<"", "opt", "conda">>, the   *)
(* empty string is <<"">> and a trailing slash is a trailing "" segment.   *)
(* The representation is one-to-one, and every string operation of the     *)
(* source (find, split, os.path.join, the regular expressions) is written  *)
(* on it segment by segment.  Python's None is the empty sequence, which   *)
(* is the split of no string.                                              *)
(***************************************************************************)
EXTENDS Integers, Sequences, FiniteSets, TLC

VARIABLES
    fs,               \* what os.path.isdir / os.path.exists answer: [dirs, files]
    providers,        \* the kernel-spec providers of the host: std, conda, venv
    pc,               \* "idle", "resolved" (after _extract_env_path), "responded" (after get)
    executable_path,  \* argument of _extract_env_path
    real_path,        \* what os.path.realpath(executable_path) gave
    resource_dir,     \* argument of _extract_env_path / field of the response
    env_path,         \* result of _extract_env_path / field of the response
    display_name,     \* argument of get
    all_specs,        \* the registry _get_all_kernelspecs returned to get
    status,           \* HTTP status of the response: 0 before, then 200, 404 or 500
    kernel_name       \* field of the response

vars == <<fs, providers, pc, executable_path, real_path, resource_dir, env_path,
          display_name, all_specs, status, kernel_name>>

\* Most entries one provider returns from get_all_specs().
MaxSpecs == 1

None == <<>>
EmptyStr == <<"">>

Min(S) == CHOOSE x \in S : \A y \in S : x <= y
Max(S) == CHOOSE x \in S : \A y \in S : x >= y

\* Directory d lies above path p.
IsAncestor(d, p) ==
    /\ Len(d) < Len(p)
    /\ SubSeq(p, 1, Len(d)) = d

\* String p is a proper prefix of string q, for a p that ends where a
\* segment of q ends or right after a "/" (every path the resolver returns
\* is cut from its input at a "/" or at the end).
IsProperPrefix(p, q) ==
    /\ p # None /\ q # None
    /\ p # q
    /\ Len(p) <= Len(q)
    /\ SubSeq(q, 1, Len(p) - 1) = SubSeq(p, 1, Len(p) - 1)
    /\ (p[Len(p)] = q[Len(p)] \/ p[Len(p)] = "")

(***************************************************************************)
(* Filesystem probes.                                                      *)
(***************************************************************************)
isdir(f, path) == path \in f.dirs
exists(f, path) == path \in (f.dirs \cup f.files)

\* os.path.join(a, name) for a single relative component `name`.
join(a, name) ==
    IF a = EmptyStr THEN <<name>>
    ELSE IF a[Len(a)] = "" THEN SubSeq(a, 1, Len(a) - 1) \o <<name>>
    ELSE a \o <<name>>

(***************************************************************************)
(* Pattern pieces.                                                         *)
(***************************************************************************)
\* A segment the regex fragment  python.*  can start: it begins with "python".
PythonNames == {"python", "python3", "python3.11"}
IsPython(seg) == seg \in PythonNames

\* (opt, usr, home) of the local-environment rule.
ReservedSubdirs == {"opt", "usr", "home"}

\* (?:mini)?conda3?
CondaDirNames == {"conda", "conda3", "miniconda", "miniconda3"}

\* Positions i of a segment ".venv" with a "/" on both sides: "/.venv/" in path.
VenvIdx(path) == {i \in 2..(Len(path) - 1) : path[i] = ".venv"}

\* Positions i of "bin" in  ^(.*)/bin/python.*$
BinPythonIdx(path) ==
    {i \in 2..(Len(path) - 1) : path[i] = "bin" /\ IsPython(path[i + 1])}

\* Positions i of ".venv" in  ^(.*)/(\.venv)/bin/python.*$
VenvBinPythonIdx(path) ==
    {i \in 2..(Len(path) - 2) :
        path[i] = ".venv" /\ path[i + 1] = "bin" /\ IsPython(path[i + 2])}

\* Positions i of "envs" in  ^(.*)/([^/]+)/envs/([^/]+)/bin/python.*$
CondaLocalIdx(path) ==
    {i \in 3..(Len(path) - 3) :
        /\ path[i] = "envs"
        /\ path[i - 1] # ""
        /\ path[i + 1] # ""
        /\ path[i + 2] = "bin"
        /\ IsPython(path[i + 3])}

\* Positions i of envs|conda in  ^(.*/(?:envs|conda)/[^/]+)(?:/bin/python.*)?$
CondaGlobalIdx(path) ==
    {i \in 2..(Len(path) - 1) :
        /\ path[i] \in {"envs", "conda"}
        /\ path[i + 1] # ""
        /\ \/ Len(path) = i + 1
           \/ /\ Len(path) >= i + 3
              /\ path[i + 2] = "bin"
              /\ IsPython(path[i + 3])}

\* Lengths k of the root in
\* ^(/opt/conda|/home/[^/]+/(?:mini)?conda3?|/usr/local/conda)(?:/bin/python.*)?$
BaseCondaLen(path) ==
    {k \in 3..Len(path) :
        /\ \/ k = 3 /\ SubSeq(path, 1, 3) = <<"", "opt", "conda">>
           \/ /\ k = 4
              /\ path[1] = "" /\ path[2] = "home" /\ path[3] # ""
              /\ path[4] \in CondaDirNames
           \/ k = 4 /\ SubSeq(path, 1, 4) = <<"", "usr", "local", "conda">>
        /\ \/ Len(path) = k
           \/ /\ Len(path) >= k + 2
              /\ path[k + 1] = "bin"
              /\ IsPython(path[k + 2])}

\* Positions i of "share" in an occurrence of "/share/jupyter/kernels/".
KernelsMarkerIdx(path) ==
    {i \in 2..(Len(path) - 3) :
        path[i] = "share" /\ path[i + 1] = "jupyter" /\ path[i + 2] = "kernels"}

(***************************************************************************)
(* The rules of _extract_env_path, in source order.  Each gives the path   *)
(* the source returns there, or None when the source falls through.        *)
(***************************************************************************)
\* One turn of the loop over [original_path, real_path].
DotVenvCheck(path_to_check, f) ==
    IF VenvIdx(path_to_check) # {}
    THEN LET venv_idx == Min(VenvIdx(path_to_check))
             project_root == SubSeq(path_to_check, 1, venv_idx - 1)
         IN  IF isdir(f, project_root) THEN project_root ELSE None
    ELSE None

\* The priority check reading the real path before the original one.
DotVenvContainmentRealFirst(original_path, resolved_path, f) ==
    IF DotVenvCheck(resolved_path, f) # None
    THEN DotVenvCheck(resolved_path, f)
    ELSE DotVenvCheck(original_path, f)

\* Priority check: "/.venv/" in the original path, then in the real path.
DotVenvContainment(original_path, resolved_path, f) ==
    IF DotVenvCheck(original_path, f) # None
    THEN DotVenvCheck(original_path, f)
    ELSE DotVenvCheck(resolved_path, f)

\* Pattern 1: /project/.venv/bin/python on the original path.
venv_dot_match(original_path, f) ==
    IF VenvBinPythonIdx(original_path) # {}
    THEN LET project_root ==
                 SubSeq(original_path, 1, Max(VenvBinPythonIdx(original_path)) - 1)
         IN  IF isdir(f, project_root) THEN project_root ELSE None
    ELSE None

\* Pattern 2 returning the directory above the venv.
venv_match_Parent(original_path, f) ==
    IF BinPythonIdx(original_path) # {}
    THEN LET potential_venv ==
                 SubSeq(original_path, 1, Max(BinPythonIdx(original_path)) - 1)
         IN  IF exists(f, join(potential_venv, "pyvenv.cfg"))
             THEN (IF Len(potential_venv) > 1
                   THEN SubSeq(potential_venv, 1, Len(potential_venv) - 1)
                   ELSE potential_venv)
             ELSE None
    ELSE None

\* Pattern 2: named virtualenv, pyvenv.cfg in the parent of bin/.
venv_match(original_path, f) ==
    IF BinPythonIdx(original_path) # {}
    THEN LET potential_venv ==
                 SubSeq(original_path, 1, Max(BinPythonIdx(original_path)) - 1)
             pyvenv_cfg == join(potential_venv, "pyvenv.cfg")
         IN  IF exists(f, pyvenv_cfg) THEN potential_venv ELSE None
    ELSE None

\* Pattern 3 going one level up from envs/ instead of two.
conda_local_match_OneLevel(resolved_path, f) ==
    IF CondaLocalIdx(resolved_path) # {}
    THEN LET i == Max(CondaLocalIdx(resolved_path))
             subdir == resolved_path[i - 1]
             project_root == SubSeq(resolved_path, 1, i - 1)
         IN  IF subdir \notin ReservedSubdirs /\ isdir(f, project_root)
             THEN project_root
             ELSE None
    ELSE None

\* Pattern 3: conda local environment, /project/subdir/envs/envname/bin/python.
conda_local_match(resolved_path, f) ==
    IF CondaLocalIdx(resolved_path) # {}
    THEN LET i == Max(CondaLocalIdx(resolved_path))
             potential_project == SubSeq(resolved_path, 1, i - 2)
             subdir == resolved_path[i - 1]
         IN  IF subdir \notin ReservedSubdirs /\ isdir(f, potential_project)
             THEN potential_project
             ELSE None
    ELSE None

\* Pattern 4: global conda environment; no filesystem probe.
conda_global_match(resolved_path) ==
    IF CondaGlobalIdx(resolved_path) # {}
    THEN SubSeq(resolved_path, 1, Max(CondaGlobalIdx(resolved_path)) + 1)
    ELSE None

\* Pattern 5: base conda.
base_conda_match(resolved_path) ==
    IF BaseCondaLen(resolved_path) # {}
    THEN SubSeq(resolved_path, 1, Max(BaseCondaLen(resolved_path)))
    ELSE None

\* Pattern 6: kernelspec under share/jupyter/kernels; parts[0] of the split.
resource_dir_parts0(rd) ==
    IF KernelsMarkerIdx(rd) # {}
    THEN LET parts0 == SubSeq(rd, 1, Min(KernelsMarkerIdx(rd)) - 1)
         IN  IF parts0 # EmptyStr THEN parts0 ELSE None
    ELSE None

\* Fallback: /bin/python on the real path with a lib directory beside bin.
bin_match(resolved_path, f) ==
    IF BinPythonIdx(resolved_path) # {}
    THEN LET potential_env ==
                 SubSeq(resolved_path, 1, Max(BinPythonIdx(resolved_path)) - 1)
         IN  IF isdir(f, join(potential_env, "lib")) THEN potential_env ELSE None
    ELSE None

\* The first element that is not None, or None.
FirstResult(results) ==
    IF \E i \in 1..Len(results) : results[i] # None
    THEN results[Min({i \in 1..Len(results) : results[i] # None})]
    ELSE None

\* The rules with the bin/python + lib fallback tried before resource_dir.
CascadeFallbackFirst(original_path, resolved_path, rd, f) ==
    FirstResult(<<DotVenvContainment(original_path, resolved_path, f),
                  venv_dot_match(original_path, f),
                  venv_match(original_path, f),
                  conda_local_match(resolved_path, f),
                  conda_global_match(resolved_path),
                  base_conda_match(resolved_path),
                  bin_match(resolved_path, f),
                  resource_dir_parts0(rd)>>)

\* The body of _extract_env_path after the early return: the first rule
\* that returns decides.
Cascade(original_path, resolved_path, rd, f) ==
    FirstResult(<<DotVenvContainment(original_path, resolved_path, f),
                  venv_dot_match(original_path, f),
                  venv_match(original_path, f),
                  conda_local_match(resolved_path, f),
                  conda_global_match(resolved_path),
                  base_conda_match(resolved_path),
                  resource_dir_parts0(rd),
                  bin_match(resolved_path, f)>>)

\* _extract_env_path without the early return.
ExtractEnvPathNoGuard(exe, resolved_path, rd, f) ==
    Cascade(exe, resolved_path, rd, f)

\* _extract_env_path(executable_path, resource_dir), with the outcome of
\* os.path.realpath (or the original path, when it raised) as resolved_path.
ExtractEnvPath(exe, resolved_path, rd, f) ==
    IF exe = None \/ exe = EmptyStr
    THEN None
    ELSE Cascade(exe, resolved_path, rd, f)

(***************************************************************************)
(* The kernel-spec registry: a dict in insertion order, as a sequence of   *)
(* [name, spec] entries with distinct names.                               *)
(***************************************************************************)
HasName(reg, name) == \E i \in 1..Len(reg) : reg[i].name = name
IndexOfName(reg, name) == Min({i \in 1..Len(reg) : reg[i].name = name})

\* setdefault instead of assignment: the first value of a key stays.
PutKeepFirst(reg, entry) ==
    IF HasName(reg, entry.name) THEN reg ELSE Append(reg, entry)

\* all_specs[name] = spec_data: an existing key keeps its position and
\* takes the new value, a new key is appended.
Put(reg, entry) ==
    IF HasName(reg, entry.name)
    THEN [reg EXCEPT ![IndexOfName(reg, entry.name)] = entry]
    ELSE Append(reg, entry)

RECURSIVE Update(_, _)
\* all_specs.update(entries)
Update(reg, entries) ==
    IF entries = <<>> THEN reg
    ELSE Update(Put(reg, Head(entries)), Tail(entries))

\* _get_all_kernelspecs with no except Exception around the optional providers.
GetAllKernelspecsPropagate(provs) ==
    IF provs.std.status # "ok" \/ provs.conda.status = "error"
       \/ provs.venv.status = "error"
    THEN [ok |-> FALSE, specs |-> <<>>]
    ELSE [ok |-> TRUE,
          specs |-> Update(Update(Update(<<>>, provs.std.specs),
                                  IF provs.conda.status = "ok"
                                  THEN provs.conda.specs ELSE <<>>),
                           IF provs.venv.status = "ok"
                           THEN provs.venv.specs ELSE <<>>)]

\* _get_all_kernelspecs: ok is FALSE when the call raises (the standard
\* manager is queried outside any try), else specs is the dict returned.
GetAllKernelspecs(provs) ==
    IF provs.std.status # "ok"
    THEN [ok |-> FALSE, specs |-> <<>>]
    ELSE LET std_specs == Update(<<>>, provs.std.specs)
             with_conda == IF provs.conda.status = "ok"
                           THEN Update(std_specs, provs.conda.specs)
                           ELSE std_specs
             with_venv == IF provs.venv.status = "ok"
                          THEN Update(with_conda, provs.venv.specs)
                          ELSE with_conda
         IN  [ok |-> TRUE, specs |-> with_venv]

\* str.lower() on the display names of the model.
Lower(name) == IF name = "Python 3" THEN "python 3" ELSE name

\* The scan comparing display names without regard to case.
FindByDisplayNameIgnoreCase(reg, name) ==
    LET hits == {i \in 1..Len(reg) : Lower(reg[i].spec.display_name) = Lower(name)}
    IN  IF hits = {} THEN 0 ELSE Min(hits)

\* The scan of get: the position of the first entry whose display_name
\* equals the queried one, 0 when the loop ends without a break.
FindByDisplayName(reg, name) ==
    LET hits == {i \in 1..Len(reg) : reg[i].spec.display_name = name}
    IN  IF hits = {} THEN 0 ELSE Min(hits)

\* executable_path = argv[0] if argv else None
ArgvExecutable(argv) == IF argv # <<>> THEN argv[1] ELSE None

(***************************************************************************)
(* The environment the handler runs in: paths, filesystems, providers.     *)
(***************************************************************************)
CondaEnvPython  == <<"", "opt", "conda", "envs", "myenv", "bin", "python3.11">>
DotVenvPython   == <<"", "home", "u", "project", ".venv", "bin", "python">>
LocalEnvPython  == <<"", "project", "subdir", "envs", "foo", "bin", "python">>
NamedVenvPython == <<"", "home", "u", ".virtualenvs", "myenv", "bin", "python">>
SystemPython    == <<"", "usr", "bin", "python3">>
RootBinPython   == <<"", "bin", "python">>
BaseCondaPython == <<"", "opt", "conda", "bin", "python">>
CondaRootPython == <<"", "opt", "conda", "python">>
NestedDotVenvPython ==
    <<"", "opt", "conda", "envs", "myenv", ".venv", "bin", "python">>
RootDotVenvPython == <<"", ".venv", "bin", "python">>
BarePython      == <<"python">>

\* Values of executable_path.
ExecutablePaths ==
    {None, EmptyStr, CondaEnvPython, DotVenvPython, LocalEnvPython, NamedVenvPython,
     SystemPython, RootBinPython, BaseCondaPython, CondaRootPython,
     NestedDotVenvPython, RootDotVenvPython, BarePython}

\* Where an executable that is a symbolic link may lead.
LinkTargets == {SystemPython, DotVenvPython, CondaEnvPython}

\* The working directory of the server.
Cwd == <<"", "home", "u">>

\* The outcomes of os.path.realpath(path): the path itself (no link on the
\* way, or the call raised), the target of a link, and for a relative path
\* the path under the working directory.
RealPaths(path) ==
    IF path = None \/ path = EmptyStr THEN {path}
    ELSE IF path[1] = "" THEN {path} \cup LinkTargets
    ELSE {path, Cwd \o path} \cup LinkTargets

CondaKernelDir == <<"", "opt", "conda", "share", "jupyter", "kernels", "python3">>
UsrLocalKernelDir ==
    <<"", "usr", "local", "share", "jupyter", "kernels", "a",
      "share", "jupyter", "kernels", "b">>
RootKernelDir == <<"", "share", "jupyter", "kernels", "python3">>
PlainKernelDir == <<"", "srv", "kernels", "python3">>

\* Values of resource_dir; the empty string is get's default.
ResourceDirs ==
    {EmptyStr, CondaKernelDir, UsrLocalKernelDir, RootKernelDir, PlainKernelDir}

\* Directories and files the probes of _extract_env_path can ask about
\* for the paths above; "lib" and "pyvenv.cfg" alone are relative to Cwd.
DirUniverse ==
    {<<"", "opt">>,
     <<"", "opt", "conda", "envs", "myenv">>,
     <<"", "project">>,
     <<"", "project", "subdir">>,
     <<"", "home", "u", "project">>,
     <<"", "usr", "lib">>,
     <<"lib">>}

FileUniverse ==
    {<<"", "opt", "conda", "envs", "myenv", "pyvenv.cfg">>,
     <<"", "project", "subdir", "envs", "foo", "pyvenv.cfg">>,
     <<"", "home", "u", ".virtualenvs", "myenv", "pyvenv.cfg">>,
     <<"", "home", "u", "project", ".venv", "pyvenv.cfg">>,
     <<"pyvenv.cfg">>}

\* An existing path has existing directories above it.
ParentClosed(f) ==
    \A p \in f.dirs \cup f.files :
        \A d \in DirUniverse : IsAncestor(d, p) => d \in f.dirs

FileSystems ==
    {f \in [dirs : SUBSET DirUniverse, files : SUBSET FileUniverse] : ParentClosed(f)}

EmptyFS == [dirs |-> {}, files |-> {}]
FullFS == [dirs |-> DirUniverse, files |-> FileUniverse]

DisplayNames == {"Python 3", "python 3", "My Env"}
KernelNames == {"python3", "myenv"}

\* spec_data of a kernel: spec.display_name, spec.argv, resource_dir.
KernelSpecPool ==
    {[display_name |-> "Python 3", argv |-> <<SystemPython, <<"-m">>>>,
      resource_dir |-> UsrLocalKernelDir],
     [display_name |-> "python 3", argv |-> <<>>,
      resource_dir |-> CondaKernelDir],
     [display_name |-> "My Env", argv |-> <<CondaEnvPython>>,
      resource_dir |-> EmptyStr],
     [display_name |-> "Python 3", argv |-> <<EmptyStr>>,
      resource_dir |-> CondaKernelDir]}

Entries == [name : KernelNames, spec : KernelSpecPool]

\* What one get_all_specs() returns: at most MaxSpecs entries, distinct names.
ProviderSpecs ==
    {es \in UNION {[1..n -> Entries] : n \in 0..MaxSpecs} :
        \A i, j \in 1..Len(es) : es[i].name = es[j].name => i = j}

Failed(st) == [status |-> st, specs |-> <<>>]

StdProviders == {[status |-> "ok", specs |-> es] : es \in ProviderSpecs}
                    \cup {Failed("error")}
OptionalProviders == {[status |-> "ok", specs |-> es] : es \in ProviderSpecs}
                         \cup {Failed("absent"), Failed("error")}

NoProviders == [std |-> Failed("ok"), conda |-> Failed("absent"),
                venv |-> Failed("absent")]

(***************************************************************************)
(* State machine.                                                          *)
(***************************************************************************)
Idle ==
    /\ pc = "idle"
    /\ executable_path = None
    /\ real_path = None
    /\ resource_dir = EmptyStr
    /\ env_path = None
    /\ display_name = ""
    /\ all_specs = <<>>
    /\ status = 0
    /\ kernel_name = ""

\* A server about to answer a request.
Init ==
    /\ fs \in {EmptyFS, FullFS}
    /\ providers \in [std : StdProviders, conda : OptionalProviders,
                      venv : OptionalProviders]
    /\ Idle

\* A direct call of _extract_env_path, on any filesystem.
InitResolve ==
    /\ fs \in FileSystems
    /\ providers = NoProviders
    /\ Idle

\* _extract_env_path(exe, rd)
Resolve(exe, rd) ==
    /\ pc = "idle"
    /\ \E resolved \in RealPaths(exe) :
          /\ real_path' = resolved
          /\ env_path' = ExtractEnvPath(exe, resolved, rd, fs)
    /\ executable_path' = exe
    /\ resource_dir' = rd
    /\ pc' = "resolved"
    /\ UNCHANGED <<fs, providers, display_name, all_specs, status, kernel_name>>

\* KernelPathHandler.get(name)
Get(name) ==
    /\ pc = "idle"
    /\ pc' = "responded"
    /\ display_name' = name
    /\ LET got == GetAllKernelspecs(providers)
           found == FindByDisplayName(got.specs, name)
       IN  IF ~got.ok
           THEN /\ status' = 500
                /\ UNCHANGED <<all_specs, kernel_name, executable_path, real_path,
                               resource_dir, env_path>>
           ELSE /\ all_specs' = got.specs
                /\ IF found = 0
                   THEN /\ status' = 404
                        /\ UNCHANGED <<kernel_name, executable_path, real_path,
                                       resource_dir, env_path>>
                   ELSE LET kernel_info == got.specs[found]
                            exe == ArgvExecutable(kernel_info.spec.argv)
                        IN  /\ status' = 200
                            /\ kernel_name' = kernel_info.name
                            /\ resource_dir' = kernel_info.spec.resource_dir
                            /\ executable_path' = exe
                            /\ \E resolved \in RealPaths(exe) :
                                  /\ real_path' = resolved
                                  /\ env_path' = ExtractEnvPath(
                                         exe, resolved,
                                         kernel_info.spec.resource_dir, fs)
    /\ UNCHANGED <<fs, providers>>

Next == \E name \in DisplayNames : Get(name)

NextResolve == \E exe \in ExecutablePaths, rd \in ResourceDirs : Resolve(exe, rd)

\* Requests to the handler.
Spec == Init /\ [][Next]_vars

\* Calls of the resolver alone.
SpecResolve == InitResolve /\ [][NextResolve]_vars

(***************************************************************************)
(* Properties of the resolver, checked under SpecResolve.                  *)
(***************************************************************************)
CondaEnvRoot == <<"", "opt", "conda", "envs", "myenv">>
HomeProject == <<"", "home", "u", "project">>
ProjectRoot == <<"", "project">>
ProjectSubdir == <<"", "project", "subdir">>
LocalEnvRoot == <<"", "project", "subdir", "envs", "foo">>
NamedVenvRoot == <<"", "home", "u", ".virtualenvs", "myenv">>

Resolved == pc = "resolved"

\* C1: for /opt/conda/envs/myenv/bin/python3.11, not a symbolic link, the
\* resolver returns /opt/conda/envs/myenv on every filesystem.
C1_CondaEnvRootAlways ==
    (Resolved /\ executable_path = CondaEnvPython /\ real_path = CondaEnvPython)
        => env_path = CondaEnvRoot

\* The part of the original path before its first "/.venv/".
DotVenvPrefix(path) == SubSeq(path, 1, Min(VenvIdx(path)) - 1)

\* C2: when the original path contains "/.venv/" and the part before the
\* first one is an existing directory, the resolver returns that part,
\* whatever the real path, the resource directory and the rest of the
\* filesystem are.
C2_DotVenvPrefixWins ==
    (/\ Resolved
     /\ executable_path # None /\ executable_path # EmptyStr
     /\ VenvIdx(executable_path) # {}
     /\ DotVenvPrefix(executable_path) \in fs.dirs)
        => env_path = DotVenvPrefix(executable_path)

\* A ".venv" inside a conda environment whose python links into another
\* project's ".venv", every marker file present: the original path's
\* prefix is returned.
C2_Witness ==
    /\ Resolved
    /\ executable_path = NestedDotVenvPython
    /\ real_path = DotVenvPython
    /\ fs = FullFS
    /\ resource_dir = CondaKernelDir
    /\ env_path = CondaEnvRoot

\* C3 as stated: for /project/subdir/envs/foo/bin/python, not a symbolic
\* link, with /project/subdir an existing directory, the resolver returns
\* /project on every such filesystem.
C3_LocalEnvAlways ==
    (/\ Resolved
     /\ executable_path = LocalEnvPython /\ real_path = LocalEnvPython
     /\ ProjectSubdir \in fs.dirs)
        => env_path = ProjectRoot

\* C3 amended: the same, on the filesystems with no pyvenv.cfg directly
\* under /project/subdir/envs/foo; with one, the resolver returns
\* /project/subdir/envs/foo (the named-venv rule comes first).
C3_LocalEnvWithoutPyvenvCfg ==
    (/\ Resolved
     /\ executable_path = LocalEnvPython /\ real_path = LocalEnvPython
     /\ ProjectSubdir \in fs.dirs)
        => env_path = IF exists(fs, join(LocalEnvRoot, "pyvenv.cfg"))
                      THEN LocalEnvRoot
                      ELSE ProjectRoot

C3_Witness ==
    /\ Resolved
    /\ executable_path = LocalEnvPython /\ real_path = LocalEnvPython
    /\ ProjectSubdir \in fs.dirs
    /\ ~exists(fs, join(LocalEnvRoot, "pyvenv.cfg"))
    /\ resource_dir = CondaKernelDir
    /\ env_path = ProjectRoot

\* C4 as stated: for /home/u/.virtualenvs/myenv/bin/python with a
\* pyvenv.cfg directly under /home/u/.virtualenvs/myenv, the resolver
\* returns /home/u/.virtualenvs/myenv for every link target.
C4_NamedVenvAlways ==
    (/\ Resolved
     /\ executable_path = NamedVenvPython
     /\ exists(fs, join(NamedVenvRoot, "pyvenv.cfg")))
        => env_path = NamedVenvRoot

\* C4 amended: the same, for every link target except a real path that
\* contains "/.venv/" after an existing directory; for such a target the
\* resolver returns that directory (the priority check reads the real path
\* too).
C4_NamedVenvUnlessRealDotVenv ==
    (/\ Resolved
     /\ executable_path = NamedVenvPython
     /\ exists(fs, join(NamedVenvRoot, "pyvenv.cfg")))
        => env_path = IF /\ VenvIdx(real_path) # {}
                         /\ DotVenvPrefix(real_path) \in fs.dirs
                      THEN DotVenvPrefix(real_path)
                      ELSE NamedVenvRoot

\* The python of the named venv links to a conda environment's python.
C4_Witness ==
    /\ Resolved
    /\ executable_path = NamedVenvPython
    /\ real_path = CondaEnvPython
    /\ exists(fs, join(NamedVenvRoot, "pyvenv.cfg"))
    /\ <<"", "opt">> \in fs.dirs
    /\ resource_dir = CondaKernelDir
    /\ env_path = NamedVenvRoot

\* No rule before the resource-directory rule returns.
NoEarlierRule(original_path, resolved_path, f) ==
    /\ DotVenvContainment(original_path, resolved_path, f) = None
    /\ venv_dot_match(original_path, f) = None
    /\ venv_match(original_path, f) = None
    /\ conda_local_match(resolved_path, f) = None
    /\ conda_global_match(resolved_path) = None
    /\ base_conda_match(resolved_path) = None

\* C5: when no earlier rule gives a result and resource_dir contains
\* "/share/jupyter/kernels/" after a non-empty part, the resolver returns
\* the part before the first occurrence, not the bin/python + lib guess.
C5_ResourceDirFallback ==
    (/\ Resolved
     /\ executable_path # None /\ executable_path # EmptyStr
     /\ NoEarlierRule(executable_path, real_path, fs)
     /\ KernelsMarkerIdx(resource_dir) # {}
     /\ SubSeq(resource_dir, 1, Min(KernelsMarkerIdx(resource_dir)) - 1) # EmptyStr)
        => env_path = SubSeq(resource_dir, 1, Min(KernelsMarkerIdx(resource_dir)) - 1)

\* The system python with /usr/lib present and a resource directory that
\* holds the marker twice.
C5_Witness ==
    /\ Resolved
    /\ executable_path = SystemPython /\ real_path = SystemPython
    /\ <<"", "usr", "lib">> \in fs.dirs
    /\ resource_dir = UsrLocalKernelDir
    /\ env_path = <<"", "usr", "local">>

\* C10: a result of the resolver is a non-empty string and a proper prefix
\* of the original path, of the real path or of resource_dir.
C10_ResultIsProperPrefix ==
    (Resolved /\ env_path # None)
        => /\ env_path # EmptyStr
           /\ \/ IsProperPrefix(env_path, executable_path)
              \/ IsProperPrefix(env_path, real_path)
              \/ IsProperPrefix(env_path, resource_dir)

(***************************************************************************)
(* Properties of the handler, checked under Spec.                          *)
(***************************************************************************)
Responded == pc = "responded"

\* The positions of the registry whose display_name is the queried one.
Matches == {i \in 1..Len(all_specs) : all_specs[i].spec.display_name = display_name}

\* C6: the resolver returns None for an absent or empty executable path
\* with every resource_dir, and a kernel whose argv is empty gets
\* env_path = null in the success response.
C6_NoExecutableNoEnvPath ==
    /\ \A exe \in {None, EmptyStr} : \A rd \in ResourceDirs :
           \A resolved \in RealPaths(exe) :
               ExtractEnvPath(exe, resolved, rd, fs) = None
    /\ (Responded /\ status = 200)
           => /\ all_specs[Min(Matches)].spec.argv = <<>> => executable_path = None
              /\ executable_path \in {None, EmptyStr} => env_path = None

C6_Witness ==
    /\ Responded /\ status = 200
    /\ all_specs[Min(Matches)].spec.argv = <<>>
    /\ resource_dir = CondaKernelDir
    /\ env_path = None

\* C7: get answers 404 exactly when no spec of the registry has the
\* queried display_name, and when exactly one has it the response carries
\* that spec's name and resource_dir.
C7_LookupByDisplayName ==
    (Responded /\ status # 500)
        => /\ status = 404 <=> Matches = {}
           /\ Cardinality(Matches) = 1
                  => \A i \in Matches :
                         /\ status = 200
                         /\ kernel_name = all_specs[i].name
                         /\ resource_dir = all_specs[i].spec.resource_dir

\* Two kernels whose display names differ in case only; the second is asked for.
C7_Witness ==
    /\ Responded /\ status = 200
    /\ Len(all_specs) = 2
    /\ all_specs[1].spec.display_name = "Python 3"
    /\ all_specs[2].spec.display_name = "python 3"
    /\ display_name = "python 3"
    /\ kernel_name = all_specs[2].name
    /\ resource_dir = CondaKernelDir

\* What get_all_specs() of provider p adds: nothing unless it answered.
Contribution(p) ==
    IF providers[p].status = "ok" THEN providers[p].specs ELSE <<>>

OptionalFailed ==
    providers.conda.status # "ok" \/ providers.venv.status # "ok"

\* C8: with the standard provider answering and an optional provider not
\* installed or raising, get does not answer 500, the registry is the
\* aggregation of the providers that answered, and 404 is decided on
\* that registry alone.
C8_OptionalProviderFailureIsolated ==
    (Responded /\ providers.std.status = "ok" /\ OptionalFailed)
        => /\ status \in {200, 404}
           /\ all_specs = Update(Update(providers.std.specs, Contribution("conda")),
                                 Contribution("venv"))
           /\ status = 404 <=> Matches = {}
           /\ \A i \in 1..Len(all_specs) :
                  \E p \in {"std", "conda", "venv"} :
                      /\ providers[p].status = "ok"
                      /\ \E j \in 1..Len(providers[p].specs) :
                             providers[p].specs[j] = all_specs[i]

C8_Witness ==
    /\ Responded /\ status = 200
    /\ providers.std.status = "ok" /\ providers.std.specs # <<>>
    /\ providers.conda.status = "error"
    /\ providers.venv.status = "ok" /\ providers.venv.specs # <<>>
    /\ Len(all_specs) = 2

\* Provider p answered and supplies kernel name n.
Supplies(p, n) == providers[p].status = "ok" /\ HasName(providers[p].specs, n)
SpecOf(p, n) == providers[p].specs[IndexOfName(providers[p].specs, n)].spec

\* The last provider, in the order standard, conda, venv, that supplies n.
LastSupplier(n) ==
    IF Supplies("venv", n) THEN "venv"
    ELSE IF Supplies("conda", n) THEN "conda"
    ELSE "std"

\* C9: a kernel name supplied by several providers is mapped by the
\* registry to the spec of the last of them, and a success response for
\* that name carries the last provider's display_name and resource_dir.
C9_LastProviderWins ==
    (Responded /\ status # 500)
        => \A n \in KernelNames :
               (\E p \in {"std", "conda", "venv"} : Supplies(p, n))
                   => /\ HasName(all_specs, n)
                      /\ all_specs[IndexOfName(all_specs, n)].spec
                             = SpecOf(LastSupplier(n), n)
                      /\ (status = 200 /\ kernel_name = n)
                             => /\ display_name = SpecOf(LastSupplier(n), n).display_name
                                /\ resource_dir = SpecOf(LastSupplier(n), n).resource_dir

\* The standard provider and the venv provider both supply python3, with
\* different display names; the venv provider's one is found.
C9_Witness ==
    /\ Responded /\ status = 200
    /\ Supplies("std", "python3") /\ Supplies("venv", "python3")
    /\ SpecOf("std", "python3").display_name # SpecOf("venv", "python3").display_name
    /\ kernel_name = "python3"
    /\ display_name = SpecOf("venv", "python3").display_name

====
